---- MODULE Spec2Model ----
(***************************************************************************)
(* Interventions of covasim (src/covasim/interventions.py): ChangeBeta,    *)
(* TestNum and TestProp, driven by the simulation loop: every registered   *)
(* intervention is constructed, apply(sim, t) is called on each of them    *)
(* for t = 0 .. npts-1 in registration order, then finalize(sim) on each.  *)
(*                                                                         *)
(* An instance is modelled by its __dict__: a record from attribute names  *)
(* to values.  Floats that the code multiplies (beta, changes) are binary   *)
(* floating-point numbers with a significand of Prec bits, each written as *)
(* the rational <<num, den>> it equals; a product is rounded to the        *)
(* nearest of them, ties to even.  Probabilities are percentages 0 .. 100; *)
(* the entries of daily_tests are [num |-> n] or a non-finite value.       *)
(***************************************************************************)
EXTENDS Integers, Sequences, FiniteSets, TLC

VARIABLES
    reg,          \* the registered interventions, in registration order: each by its
                  \* class name, a second instance of ChangeBeta as "ChangeBeta#2"
    phase,        \* "new", "run", "finalize", "done", "failed" (a constructor raised), "crashed" (an apply raised)
    step,         \* index in reg of the intervention the loop handles next
    t,            \* the current day
    cb,           \* __dict__ of the ChangeBeta instance
    cb2,          \* __dict__ of the second ChangeBeta instance
    tn,           \* __dict__ of the TestNum instance
    tp,           \* __dict__ of the TestProp instance
    beta,         \* sim['beta']
    people,       \* sim.people: person index -> person
    sim_results,  \* sim.results: name -> series
    err,          \* the exception that ended the run, if any
    last,         \* history: the call made by the latest step and what it did
    pre           \* history: the state the latest call started from

vars == <<reg, phase, step, t, cb, cb2, tn, tp, beta, people, sim_results, err, last, pre>>

(***************************************************************************)
(* Bounds of the model.                                                    *)
(***************************************************************************)
NPeople == 2
NPts == 2
MaxSched == 2
\* Bits in the significand of a float
Prec == 6

(***************************************************************************)
(* Values.                                                                 *)
(***************************************************************************)
None == <<"None">>
NoInstance == [absent |-> TRUE]
NoError == [raised |-> FALSE]

RECURSIVE GCD(_, _)
GCD(a, b) == IF b = 0 THEN a ELSE GCD(b, a % b)

Rat(n, d) == IF n = 0 THEN <<0, 1>> ELSE <<n \div GCD(n, d), d \div GCD(n, d)>>

RECURSIVE Pow2(_)
Pow2(k) == IF k = 0 THEN 1 ELSE 2 * Pow2(k - 1)

\* The float nearest to (n / d) * (sn / sd), sn and sd powers of two: n / d is
\* scaled into [2^(Prec-1), 2^Prec) and rounded to an integer, ties to even
RECURSIVE RoundScaled(_, _, _, _)
RoundScaled(n, d, sn, sd) ==
    IF n \div d < Pow2(Prec - 1)
    THEN IF d % 2 = 0 THEN RoundScaled(n, d \div 2, sn, 2 * sd)
         ELSE RoundScaled(2 * n, d, sn, 2 * sd)
    ELSE IF n \div d >= Pow2(Prec) THEN RoundScaled(n, 2 * d, 2 * sn, sd)
    ELSE LET q == n \div d
             r == n % d
             m == IF 2 * r > d \/ (2 * r = d /\ q % 2 = 1) THEN q + 1 ELSE q
         IN  Rat(m * sn, sd)

\* Rounding of a non-negative real to a float
Round(x) == IF x[1] = 0 THEN <<0, 1>> ELSE RoundScaled(x[1], x[2], 1, 1)

\* The float a literal n/d denotes
Float(n, d) == Round(Rat(n, d))

\* The float product a * b.
FloatMul(a, b) == Round(Rat(a[1] * b[1], a[2] * b[2]))

Min(a, b) == IF a <= b THEN a ELSE b

\* dict.update
DictUpdate(d, u) ==
    [k \in (DOMAIN d) \cup (DOMAIN u) |-> IF k \in DOMAIN u THEN u[k] ELSE d[k]]

\* sc.promotetoarray: a scalar becomes a one-element array
PromoteToArray(x) == IF "scalar" \in DOMAIN x THEN <<x.scalar>> ELSE x.seq

\* sc.findinds(self.days, t), in increasing order
RECURSIVE FindIndsFrom(_, _, _)
FindIndsFrom(days, day, i) ==
    IF i > Len(days) THEN <<>>
    ELSE IF days[i] = day THEN <<i>> \o FindIndsFrom(days, day, i + 1)
    ELSE FindIndsFrom(days, day, i + 1)

FindInds(days, day) == FindIndsFrom(days, day, 1)

(***************************************************************************)
(* Intervention (base class).                                              *)
(***************************************************************************)
\* Intervention.__init__
InterventionInit == [results |-> <<>>]

\* Faulty variant: the discriminator replaces the attributes
ToJsonTypeOnly(self, cls) == [InterventionType |-> cls]

\* Intervention.to_json: a deep copy of __dict__ plus the class name
ToJson(self, cls) == DictUpdate(self, [InterventionType |-> cls])

\* The Python type of the value under each key of the mapping to_json returns:
\* a deep copy keeps the type the constructor or apply gave the attribute
AttrType(key) ==
    CASE key = "InterventionType" -> "str"
      [] key = "results" -> "dict"
      [] key = "scheduled_tests" -> "set"
      [] key \in {"days", "changes"} -> "ndarray"
      [] key = "daily_tests" -> "list"
      [] key = "orig_beta" -> "float or None"
      [] OTHER -> "float"

\* The type of every value of results: self.results[name] = cv.Result(...)
ResultsValueType == "Result"

\* The types json can represent: numbers, strings, booleans, null, lists, dicts
JsonTypes == {"int", "float", "float or None", "str", "bool", "NoneType", "list", "dict"}

(***************************************************************************)
(* The loop of the simulation.                                             *)
(***************************************************************************)
LastStep == step = Len(reg)

\* The position after the call at (phase, step, t) returned normally.
Advance ==
    IF ~LastStep
    THEN step' = step + 1 /\ UNCHANGED <<phase, t>>
    ELSE /\ step' = 1
         /\ CASE phase = "new" -> phase' = "run" /\ t' = 0
              [] phase = "run" /\ t + 1 < NPts -> phase' = "run" /\ t' = t + 1
              [] phase = "run" /\ t + 1 >= NPts -> phase' = "finalize" /\ UNCHANGED t
              [] OTHER -> phase' = "done" /\ UNCHANGED t

\* The call raised: the exception ends the run.
Raise(ph, e) ==
    /\ phase' = ph
    /\ err' = e
    /\ UNCHANGED <<step, t>>

PreState == [cb |-> cb, cb2 |-> cb2, tn |-> tn, tp |-> tp, beta |-> beta, people |-> people,
             sim_results |-> sim_results, t |-> t]

Current(cls) == step \in 1..Len(reg) /\ reg[step] = cls

(***************************************************************************)
(* ChangeBeta.                                                             *)
(***************************************************************************)
Days == 0..NPts
Changes == {Float(0, 1), Float(1, 10), Float(7, 10), Float(1, 1)}
Betas == {Float(1, 2), Float(1, 10)}

SeqsUpTo(S, n) == UNION {[1..k -> S] : k \in 0..n}

DaysArgs == {[scalar |-> d] : d \in Days} \cup {[seq |-> s] : s \in SeqsUpTo(Days, MaxSched)}
ChangesArgs == {[scalar |-> c] : c \in Changes} \cup {[seq |-> s] : s \in SeqsUpTo(Changes, MaxSched)}

\* Faulty variant: only a schedule with more days than changes is refused
CBLengthsDifferOneWay(days, changes) == Len(days) > Len(changes)

\* ChangeBeta.__init__, the length check
CBLengthsDiffer(days, changes) == Len(days) # Len(changes)

CBErrorMsg(days, changes) ==
    [raised |-> TRUE, type |-> "ValueError", cls |-> "ChangeBeta",
     ndays |-> Len(days), nchanges |-> Len(changes)]

\* ChangeBeta.__init__ when it returns
CBInit(days, changes) ==
    DictUpdate(InterventionInit,
        [days |-> PromoteToArray(days), changes |-> PromoteToArray(changes),
         orig_beta |-> None])

CBConstruct ==
    /\ phase = "new" /\ Current("ChangeBeta")
    /\ \E days \in DaysArgs, changes \in ChangesArgs :
        /\ pre' = PreState
        /\ last' = [op |-> "init", cls |-> "ChangeBeta", days |-> days, changes |-> changes]
        /\ IF CBLengthsDiffer(PromoteToArray(days), PromoteToArray(changes))
           THEN /\ Raise("failed", CBErrorMsg(PromoteToArray(days), PromoteToArray(changes)))
                /\ UNCHANGED cb
           ELSE /\ cb' = CBInit(days, changes)
                /\ Advance
                /\ UNCHANGED err
    /\ UNCHANGED <<reg, cb2, tn, tp, beta, people, sim_results>>

\* Faulty variant: the baseline is stored again on every call
CBOrigBetaRecaptured(self, sim_beta) == sim_beta

\* ChangeBeta.apply: the baseline is stored on the first call
CBOrigBeta(self, sim_beta) == IF self.orig_beta = None THEN sim_beta ELSE self.orig_beta

\* Faulty variant: new_beta starts from the current value, so changes compound
CBStartBetaCurrent(orig_beta, sim_beta) == sim_beta

\* ChangeBeta.apply: new_beta starts from the baseline
CBStartBeta(orig_beta, sim_beta) == orig_beta

\* ChangeBeta.apply: for ind in inds: new_beta = new_beta * self.changes[ind]
RECURSIVE CBFold(_, _, _)
CBFold(new_beta, changes, inds) ==
    IF inds = <<>> THEN new_beta
    ELSE CBFold(FloatMul(new_beta, changes[Head(inds)]), changes, Tail(inds))

\* sim['beta'] after ChangeBeta.apply
CBNewBeta(self, sim_beta, day) ==
    LET inds == FindInds(self.days, day)
        orig == CBOrigBeta(self, sim_beta)
    IN  IF Len(inds) > 0 THEN CBFold(CBStartBeta(orig, sim_beta), self.changes, inds)
        ELSE sim_beta

CBApply ==
    /\ phase = "run" /\ Current("ChangeBeta")
    /\ pre' = PreState
    /\ last' = [op |-> "apply", cls |-> "ChangeBeta", t |-> t]
    /\ cb' = [cb EXCEPT !.orig_beta = CBOrigBeta(cb, beta)]
    /\ beta' = CBNewBeta(cb, beta, t)
    /\ Advance
    /\ UNCHANGED <<reg, cb2, tn, tp, people, sim_results, err>>

\* ChangeBeta.apply called once more for the day of the call before
CBApplyAgain ==
    /\ phase \in {"run", "finalize"}
    /\ last.op = "apply" /\ last.cls = "ChangeBeta"
    /\ pre' = PreState
    /\ last' = [op |-> "apply", cls |-> "ChangeBeta", t |-> last.t, again |-> TRUE]
    /\ cb' = [cb EXCEPT !.orig_beta = CBOrigBeta(cb, beta)]
    /\ beta' = CBNewBeta(cb, beta, last.t)
    /\ UNCHANGED <<reg, cb2, phase, step, t, tn, tp, people, sim_results, err>>

\* Intervention.finalize, inherited by ChangeBeta: returns at once
CBFinalize ==
    /\ phase = "finalize" /\ Current("ChangeBeta")
    /\ pre' = PreState
    /\ last' = [op |-> "finalize", cls |-> "ChangeBeta"]
    /\ Advance
    /\ UNCHANGED <<reg, cb2, cb, tn, tp, beta, people, sim_results, err>>

CBToJson ==
    /\ phase \in {"new", "run", "finalize", "done"}
    /\ cb # NoInstance
    /\ last.op # "to_json"
    /\ pre' = PreState
    /\ last' = [op |-> "to_json", cls |-> "ChangeBeta", ret |-> ToJson(cb, "ChangeBeta")]
    /\ UNCHANGED <<reg, cb2, phase, step, t, cb, tn, tp, beta, people, sim_results, err>>

(***************************************************************************)
(* A second instance of ChangeBeta on the same simulation, built from one  *)
(* day and one change.                                                     *)
(***************************************************************************)
Days2Args == {[scalar |-> d] : d \in Days}
Changes2Args == {[scalar |-> Float(7, 10)]}

CB2Construct ==
    /\ phase = "new" /\ Current("ChangeBeta#2")
    /\ \E days \in Days2Args, changes \in Changes2Args :
        /\ pre' = PreState
        /\ last' = [op |-> "init", cls |-> "ChangeBeta#2", days |-> days, changes |-> changes]
        /\ IF CBLengthsDiffer(PromoteToArray(days), PromoteToArray(changes))
           THEN /\ Raise("failed", CBErrorMsg(PromoteToArray(days), PromoteToArray(changes)))
                /\ UNCHANGED cb2
           ELSE /\ cb2' = CBInit(days, changes)
                /\ Advance
                /\ UNCHANGED err
    /\ UNCHANGED <<reg, cb, tn, tp, beta, people, sim_results>>

CB2Apply ==
    /\ phase = "run" /\ Current("ChangeBeta#2")
    /\ pre' = PreState
    /\ last' = [op |-> "apply", cls |-> "ChangeBeta#2", t |-> t]
    /\ cb2' = [cb2 EXCEPT !.orig_beta = CBOrigBeta(cb2, beta)]
    /\ beta' = CBNewBeta(cb2, beta, t)
    /\ Advance
    /\ UNCHANGED <<reg, cb, tn, tp, people, sim_results, err>>

CB2Finalize ==
    /\ phase = "finalize" /\ Current("ChangeBeta#2")
    /\ pre' = PreState
    /\ last' = [op |-> "finalize", cls |-> "ChangeBeta#2"]
    /\ Advance
    /\ UNCHANGED <<reg, cb, cb2, tn, tp, beta, people, sim_results, err>>

(***************************************************************************)
(* Collaborators of the testing interventions: Result, bt, Person.test,    *)
(* choose_people_weighted, cumsum.                                         *)
(***************************************************************************)
\* cv.Result(name, npts=npts): a series of npts zeros, indexed by day
Result(npts) == [i \in 0..(npts - 1) |-> 0]

\* cv.bt(prob): the outcomes a Bernoulli trial of probability prob / 100 can have
Bt(prob) == IF prob <= 0 THEN {FALSE} ELSE IF prob >= 100 THEN {TRUE} ELSE {TRUE, FALSE}

\* The subsets of S on which independent trials bt(prob), one per member, can all succeed
BtSets(S, prob) == {B \in SUBSET S : \A i \in S : (i \in B) \in Bt(prob)}

\* person.test(t, sensitivity): an infectious person is diagnosed when bt(sensitivity) succeeds
PersonTest(person, sensitivity, draw) ==
    IF person.infectious /\ draw THEN [person EXCEPT !.diagnosed = TRUE] ELSE person

\* The population after test() on the members of inds, draws succeeding on pos
TestAll(ppl, inds, sensitivity, pos) ==
    [i \in DOMAIN ppl |->
        IF i \in inds THEN PersonTest(ppl[i], sensitivity, i \in pos) ELSE ppl[i]]

RECURSIVE SumTo(_, _)
SumTo(v, i) == IF i < 0 THEN 0 ELSE v[i] + SumTo(v, i - 1)

\* pl.cumsum(values)
CumSum(v) == [i \in DOMAIN v |-> SumTo(v, i)]

RECURSIVE SetToSeq(_)
SetToSeq(S) ==
    IF S = {} THEN <<>>
    ELSE LET m == CHOOSE x \in S : \A y \in S : x <= y
         IN  <<m>> \o SetToSeq(S \ {m})

Range(s) == {s[i] : i \in DOMAIN s}

\* A float that is not finite
Inf == [nonfinite |-> "inf"]
Num(n) == [num |-> n]
\* pl.isfinite(x)
IsFinite(x) == "num" \in DOMAIN x
\* bool(x) of a float: only zero is false
Truthy(x) == ~("num" \in DOMAIN x /\ x.num = 0)
\* x / s elementwise: 0 / 0 is nan, written <<0, 0>>
IsNaN(p) == p[2] = 0

\* cv.choose_people_weighted(probs, n): the draws that weighted sampling
\* without replacement can return: distinct indices of positive probability,
\* n of them or all there are; none when the probabilities are nan (it fails).
ChoosePeopleWeighted(probs, n) ==
    LET supp == {i \in DOMAIN probs : ~IsNaN(probs[i]) /\ probs[i][1] > 0}
        k == Min(n, Cardinality(supp))
    IN  IF \E i \in DOMAIN probs : IsNaN(probs[i]) THEN {}
        ELSE {SetToSeq(S) : S \in {X \in SUBSET supp : Cardinality(X) = k}}

(***************************************************************************)
(* TestNum.                                                                *)
(***************************************************************************)
Budgets == {Num(0), Num(NPeople - 1), Num(NPeople + 1), Inf}
DailyTestsArgs == [1..NPts -> Budgets] \cup [1..(NPts - 1) -> Budgets]
SymptTests == {100}
TraceTests == {2}
Sensitivities == {100}

\* TestNum.__init__
TNInit(npts, daily_tests, sympt_test, trace_test, sensitivity) ==
    DictUpdate(InterventionInit,
        [daily_tests |-> daily_tests, sympt_test |-> sympt_test,
         trace_test |-> trace_test, sensitivity |-> sensitivity,
         results |-> [n_diagnoses |-> Result(npts), cum_diagnoses |-> Result(npts)]])

TNConstructFrom(dailyTestsArgs) ==
    /\ phase = "new" /\ Current("TestNum")
    /\ \E daily_tests \in dailyTestsArgs, sympt_test \in SymptTests,
          trace_test \in TraceTests, sensitivity \in Sensitivities :
        /\ last' = [op |-> "init", cls |-> "TestNum", npts |-> NPts,
                    daily_tests |-> daily_tests, sympt_test |-> sympt_test,
                    trace_test |-> trace_test, sensitivity |-> sensitivity]
        /\ tn' = TNInit(NPts, daily_tests, sympt_test, trace_test, sensitivity)
    /\ pre' = PreState
    /\ Advance
    /\ UNCHANGED <<reg, cb2, cb, tp, beta, people, sim_results, err>>

TNConstruct == TNConstructFrom(DailyTestsArgs)

\* The same budget on every day: all persons but one
EveryDayTestsArgs == {[i \in 1..NPts |-> Num(NPeople - 1)]}

TNConstructEveryDay == TNConstructFrom(EveryDayTestsArgs)

\* Faulty variant: a budget of zero is not skipped
TNSkipsNonFiniteOnly(self, day) ==
    \/ ~(day < Len(self.daily_tests))
    \/ ~IsFinite(self.daily_tests[day + 1])

\* TestNum.apply: the two early returns
TNSkips(self, day) ==
    \/ ~(day < Len(self.daily_tests))
    \/ ~(Truthy(self.daily_tests[day + 1]) /\ IsFinite(self.daily_tests[day + 1]))

\* Faulty variant: one test more than the budget
TNNTestsPlusOne(self, day) == self.daily_tests[day + 1].num + 1

\* TestNum.apply: the n handed to choose_people_weighted
TNNTests(self, day) == self.daily_tests[day + 1].num

\* Faulty variant: the weight of a diagnosed person is not reset
TNWeightKeepsDiagnosed(self, person) ==
    (IF person.symptomatic THEN self.sympt_test ELSE 1)
    * (IF person.known_contact THEN self.trace_test ELSE 1)

\* TestNum.apply: test_probs[i] before normalisation
TNWeight(self, person) ==
    IF person.diagnosed THEN 0
    ELSE (IF person.symptomatic THEN self.sympt_test ELSE 1)
         * (IF person.known_contact THEN self.trace_test ELSE 1)

TNTestProbs(self, ppl) == [i \in DOMAIN ppl |-> TNWeight(self, ppl[i])]

\* test_probs /= test_probs.sum()
TNNormalize(w) ==
    LET s == SumTo(w, Cardinality(DOMAIN w) - 1)
    IN  [i \in DOMAIN w |-> <<w[i], s>>]

\* Faulty variant: the running total is kept up to date by apply
TNCountRunningTotal(results, day, ppl, test_inds) ==
    [results EXCEPT !.n_diagnoses[day] =
                        @ + Cardinality({i \in Range(test_inds) : ppl[i].diagnosed}),
                    !.cum_diagnoses[day] =
                        @ + Cardinality({i \in Range(test_inds) : ppl[i].diagnosed})]

\* TestNum.apply: n_diagnoses after the loop over test_inds
TNCount(results, day, ppl, test_inds) ==
    [results EXCEPT !.n_diagnoses[day] =
        @ + Cardinality({i \in Range(test_inds) : ppl[i].diagnosed})]

TNApply ==
    /\ phase = "run" /\ Current("TestNum")
    /\ pre' = PreState
    /\ UNCHANGED <<reg, cb2, cb, tp, beta, sim_results>>
    /\ IF TNSkips(tn, t)
       THEN /\ last' = [op |-> "apply", cls |-> "TestNum", t |-> t, skipped |-> TRUE,
                        tested |-> <<>>]
            /\ Advance
            /\ UNCHANGED <<tn, people, err>>
       ELSE LET w == TNTestProbs(tn, people)
                draws == ChoosePeopleWeighted(TNNormalize(w), TNNTests(tn, t))
            IN  IF draws = {}
                THEN /\ last' = [op |-> "apply", cls |-> "TestNum", t |-> t,
                                 skipped |-> FALSE, tested |-> <<>>, test_probs |-> w]
                     /\ Raise("crashed", [raised |-> TRUE, type |-> "nan probabilities", cls |-> "TestNum"])
                     /\ UNCHANGED <<tn, people>>
                ELSE \E test_inds \in draws :
                     \E pos \in BtSets(Range(test_inds), tn.sensitivity) :
                        /\ people' = TestAll(people, Range(test_inds), tn.sensitivity, pos)
                        /\ tn' = [tn EXCEPT !.results = TNCount(@, t, people', test_inds)]
                        /\ last' = [op |-> "apply", cls |-> "TestNum", t |-> t,
                                    skipped |-> FALSE, tested |-> test_inds,
                                    test_probs |-> w]
                        /\ Advance
                        /\ UNCHANGED err

\* TestNum.finalize: the results after the cumulative sum
TNFinalResults(results) ==
    [results EXCEPT !.cum_diagnoses = CumSum(results.n_diagnoses)]

\* Faulty variant: finalize forgets the merge
MergeResultsForgotten(sim_res, results) == sim_res

\* sim.results.update(self.results)
MergeResults(sim_res, results) == DictUpdate(sim_res, results)

TNFinalize ==
    /\ phase = "finalize" /\ Current("TestNum")
    /\ pre' = PreState
    /\ last' = [op |-> "finalize", cls |-> "TestNum"]
    /\ tn' = [tn EXCEPT !.results = TNFinalResults(@)]
    /\ sim_results' = MergeResults(sim_results, tn'.results)
    /\ Advance
    /\ UNCHANGED <<reg, cb2, cb, tp, beta, people, err>>

TNToJson ==
    /\ phase \in {"new", "run", "finalize", "done"}
    /\ tn # NoInstance
    /\ last.op # "to_json"
    /\ pre' = PreState
    /\ last' = [op |-> "to_json", cls |-> "TestNum", ret |-> ToJson(tn, "TestNum")]
    /\ UNCHANGED <<reg, cb2, phase, step, t, cb, tn, tp, beta, people, sim_results, err>>

(***************************************************************************)
(* TestProp.                                                               *)
(***************************************************************************)
\* <<symptomatic_prob, asymptomatic_prob>>
TestingProbs == {<<0, 0>>, <<90, 0>>, <<90, 1>>}
TraceProbs == {0, 50, 100}
TestSensitivities == {100}

\* TestProp.__init__
TPInit(npts, symptomatic_prob, asymptomatic_prob, trace_prob, test_sensitivity) ==
    DictUpdate(InterventionInit,
        [symptomatic_prob |-> symptomatic_prob, asymptomatic_prob |-> asymptomatic_prob,
         trace_prob |-> trace_prob, test_sensitivity |-> test_sensitivity,
         results |-> [n_tested |-> Result(npts), n_diagnoses |-> Result(npts),
                      cum_tested |-> Result(npts), cum_diagnoses |-> Result(npts)],
         scheduled_tests |-> {}])

TPConstruct ==
    /\ phase = "new" /\ Current("TestProp")
    /\ \E probs \in TestingProbs, trace_prob \in TraceProbs,
          test_sensitivity \in TestSensitivities :
        /\ last' = [op |-> "init", cls |-> "TestProp", npts |-> NPts,
                    symptomatic_prob |-> probs[1], asymptomatic_prob |-> probs[2],
                    trace_prob |-> trace_prob, test_sensitivity |-> test_sensitivity]
        /\ tp' = TPInit(NPts, probs[1], probs[2], trace_prob, test_sensitivity)
    /\ pre' = PreState
    /\ Advance
    /\ UNCHANGED <<reg, cb2, cb, tn, beta, people, sim_results, err>>

\* TestProp.apply: the probability of the trial made for a person not scheduled
TPProb(self, person) ==
    IF person.symptomatic THEN self.symptomatic_prob ELSE self.asymptomatic_prob

\* Faulty variant: the scheduled set is not consulted
TPIsTestedUnscheduled(self, i, person, draw) ==
    \/ (person.symptomatic /\ draw)
    \/ (~person.symptomatic /\ draw)

\* Faulty variant: no trial counts for a person without symptoms
TPIsTestedSymptomaticOnly(self, i, person, draw) ==
    \/ i \in self.scheduled_tests
    \/ (person.symptomatic /\ draw)

\* TestProp.apply: the condition under which person i is tested; draw is the
\* outcome of the trial made for the person
TPIsTested(self, i, person, draw) ==
    \/ i \in self.scheduled_tests
    \/ (person.symptomatic /\ draw)
    \/ (~person.symptomatic /\ draw)

\* The sets of persons whose trial can succeed (no trial is made for a scheduled person)
TPDraws(self, ppl) ==
    {B \in SUBSET ((DOMAIN ppl) \ self.scheduled_tests) :
        \A i \in (DOMAIN ppl) \ self.scheduled_tests : (i \in B) \in Bt(TPProb(self, ppl[i]))}

\* TestProp.apply: the contacts that can be added to new_scheduled_tests
TPTraceable(ppl, tested) ==
    UNION {ppl[i].contact_inds : i \in {j \in tested : ppl[j].diagnosed}}

\* TestProp.apply: the sets new_scheduled_tests can end as
TPTraced(self, contacts) ==
    IF self.trace_prob = 0 THEN {{}} ELSE BtSets(contacts, self.trace_prob)

\* Faulty variant: the new set is merged into the old one
TPNextScheduledMerged(old, new) == old \cup new

\* TestProp.apply: self.scheduled_tests = new_scheduled_tests
TPNextScheduled(old, new) == new

\* Faulty variant: every diagnosed person is counted, tested or not
TPCountAllDiagnosed(results, day, ppl, tested) ==
    [results EXCEPT !.n_tested[day] = @ + Cardinality(tested),
                    !.n_diagnoses[day] = @ + Cardinality({i \in DOMAIN ppl : ppl[i].diagnosed})]

\* TestProp.apply: the counters after the loop
TPCount(results, day, ppl, tested) ==
    [results EXCEPT !.n_tested[day] = @ + Cardinality(tested),
                    !.n_diagnoses[day] = @ + Cardinality({i \in tested : ppl[i].diagnosed})]

TPApply ==
    /\ phase = "run" /\ Current("TestProp")
    /\ pre' = PreState
    /\ \E bts \in TPDraws(tp, people) :
        LET tested == {i \in DOMAIN people : TPIsTested(tp, i, people[i], i \in bts)}
        IN  \E pos \in BtSets(tested, tp.test_sensitivity) :
              /\ people' = TestAll(people, tested, tp.test_sensitivity, pos)
              /\ \E traced \in TPTraced(tp, TPTraceable(people', tested)) :
                    tp' = [tp EXCEPT !.results = TPCount(@, t, people', tested),
                                     !.scheduled_tests = TPNextScheduled(@, traced)]
              /\ last' = [op |-> "apply", cls |-> "TestProp", t |-> t, tested |-> tested,
                          draws |-> bts]
    /\ Advance
    /\ UNCHANGED <<reg, cb2, cb, tn, beta, sim_results, err>>

\* Faulty variant: cum_diagnoses is summed from n_tested
TPFinalResultsSwapped(results) ==
    [results EXCEPT !.cum_tested = CumSum(results.n_tested),
                    !.cum_diagnoses = CumSum(results.n_tested)]

\* TestProp.finalize: the results after the cumulative sums
TPFinalResults(results) ==
    [results EXCEPT !.cum_tested = CumSum(results.n_tested),
                    !.cum_diagnoses = CumSum(results.n_diagnoses)]

TPFinalize ==
    /\ phase = "finalize" /\ Current("TestProp")
    /\ pre' = PreState
    /\ last' = [op |-> "finalize", cls |-> "TestProp"]
    /\ tp' = [tp EXCEPT !.results = TPFinalResults(@)]
    /\ sim_results' = MergeResults(sim_results, tp'.results)
    /\ Advance
    /\ UNCHANGED <<reg, cb2, cb, tn, beta, people, err>>

TPToJson ==
    /\ phase \in {"new", "run", "finalize", "done"}
    /\ tp # NoInstance
    /\ last.op # "to_json"
    /\ pre' = PreState
    /\ last' = [op |-> "to_json", cls |-> "TestProp", ret |-> ToJson(tp, "TestProp")]
    /\ UNCHANGED <<reg, cb2, phase, step, t, cb, tn, tp, beta, people, sim_results, err>>

(***************************************************************************)
(* Populations.                                                            *)
(***************************************************************************)
Idx == 0..(NPeople - 1)

Person(s, k, d, i, c) ==
    [symptomatic |-> s, known_contact |-> k, diagnosed |-> d, infectious |-> i,
     contact_inds |-> c]

\* The population ChangeBeta runs on (it never reads it)
CBPops == {[i \in Idx |-> Person(FALSE, FALSE, FALSE, FALSE, {})]}

\* Persons of TestNum at the start of a run, nobody diagnosed yet: susceptible,
\* susceptible known contact, infectious without symptoms, with symptoms, with
\* symptoms and a known contact
TNPersons ==
    {Person(FALSE, FALSE, FALSE, FALSE, {}), Person(FALSE, TRUE, FALSE, FALSE, {}),
     Person(FALSE, FALSE, FALSE, TRUE, {}), Person(TRUE, FALSE, FALSE, TRUE, {}),
     Person(TRUE, TRUE, FALSE, TRUE, {})}
TNPops == [Idx -> TNPersons]

\* Contact networks of TestProp: the next person, everybody else
Networks ==
    {[i \in Idx |-> {(i + 1) % NPeople}],
     [i \in Idx |-> Idx \ {i}]}

\* Persons of TestProp at the start of a run, less their contacts:
\* <<symptomatic, infectious>>
TPFlags == {<<FALSE, FALSE>>, <<FALSE, TRUE>>, <<TRUE, TRUE>>}

TPPops ==
    {[i \in Idx |-> Person(f[i][1], FALSE, FALSE, f[i][2], net[i])] :
        f \in [Idx -> TPFlags], net \in Networks}

(***************************************************************************)
(* Specifications.                                                         *)
(***************************************************************************)
InitWith(regs, betas, pops) ==
    /\ reg \in regs
    /\ phase = "new"
    /\ step = 1
    /\ t = 0
    /\ cb = NoInstance
    /\ cb2 = NoInstance
    /\ tn = NoInstance
    /\ tp = NoInstance
    /\ beta \in betas
    /\ people \in pops
    /\ sim_results = [n_exposed |-> Result(NPts)]
    /\ err = NoError
    /\ last = [op |-> "none"]
    /\ pre = [none |-> TRUE]

CBNext == CBConstruct \/ CBApply \/ CBFinalize \/ CBToJson
TNNext == TNConstruct \/ TNApply \/ TNFinalize \/ TNToJson
TPNext == TPConstruct \/ TPApply \/ TPFinalize \/ TPToJson

InitCB == InitWith({<<"ChangeBeta">>}, Betas, CBPops)
InitTN == InitWith({<<"TestNum">>}, {Float(1, 2)}, TNPops)
InitTP == InitWith({<<"TestProp">>}, {Float(1, 2)}, TPPops)

SpecCB == InitCB /\ [][CBNext]_vars
SpecTN == InitTN /\ [][TNNext]_vars
SpecTP == InitTP /\ [][TPNext]_vars

Init == InitCB \/ InitTN \/ InitTP
Next == CBNext \/ TNNext \/ TPNext
Spec == Init /\ [][Next]_vars

\* ChangeBeta alone, apply called any number of times a day
SpecCBRepeat == InitCB /\ [][CBNext \/ CBApplyAgain]_vars

\* sim['beta'] at the start of a run with several interventions
MultiBetas == {Float(1, 2)}

\* Several interventions on one simulation: two instances of ChangeBeta in
\* either order, ChangeBeta before TestNum, TestProp before TestNum.
InitMulti ==
    \/ InitWith({<<"ChangeBeta", "ChangeBeta#2">>, <<"ChangeBeta#2", "ChangeBeta">>},
                MultiBetas, CBPops)
    \/ InitWith({<<"ChangeBeta", "TestNum">>}, MultiBetas, CBPops)
    \/ InitWith({<<"TestProp", "TestNum">>}, MultiBetas, TPPops)

MultiNext ==
    \/ CBConstruct \/ CBApply \/ CBFinalize
    \/ CB2Construct \/ CB2Apply \/ CB2Finalize
    \/ TNConstructEveryDay \/ TNApply \/ TNFinalize
    \/ TPConstruct \/ TPApply \/ TPFinalize

SpecMulti == InitMulti /\ [][MultiNext]_vars

(***************************************************************************)
(* Properties.  "After" a call means: in the state the call leaves, where  *)
(* last describes the call and pre is the state it started from.           *)
(***************************************************************************)
After(op, cls) == last.op = op /\ last.cls = cls

\* start multiplied by changes[i] for every index i in S, in increasing order
\* of i: the float product start * changes[i1] * changes[i2] * ...
RECURSIVE ProductOver(_, _, _)
ProductOver(start, changes, S) ==
    IF S = {} THEN start
    ELSE LET i == CHOOSE x \in S : \A y \in S : x <= y
         IN  ProductOver(FloatMul(start, changes[i]), changes, S \ {i})

Matching(days, day) == {i \in DOMAIN days : days[i] = day}

\* C1: after ChangeBeta.apply(sim, t), sim['beta'] is orig_beta times the
\* product of the changes scheduled for day t (the float product, multiplied
\* in schedule order) when there are any, and is the value it had before the
\* call when there are none.  With days = [0, 1], changes = [0.7, 1] and
\* baseline 0.5: 0.35 after day 0 and 0.5 after day 1.
C1_BetaOnScheduledDay ==
    After("apply", "ChangeBeta") =>
        LET m == Matching(cb.days, last.t)
        IN  /\ m # {} => beta = ProductOver(cb.orig_beta, cb.changes, m)
            /\ m = {} => beta = pre.beta
            /\ (cb.days = <<0, 1>> /\ cb.changes = <<Float(7, 10), Float(1, 1)>>
                    /\ cb.orig_beta = Float(1, 2)) =>
                  /\ last.t = 0 => beta = Float(35, 100)
                  /\ last.t = 1 => beta = Float(1, 2)

\* C1 witness: on day 1, two scheduled changes have moved beta off the value
\* it had, to 0.5 * 0.7 * 0.7.
C1_Witness ==
    /\ After("apply", "ChangeBeta")
    /\ last.t = 1
    /\ Cardinality(Matching(cb.days, last.t)) = 2
    /\ pre.beta = Float(1, 2)
    /\ beta = FloatMul(FloatMul(Float(1, 2), Float(7, 10)), Float(7, 10))
    /\ beta # pre.beta

\* The number of elements a constructor argument stands for
ArgLen(x) == IF "scalar" \in DOMAIN x THEN 1 ELSE Len(x.seq)

\* C7: ChangeBeta(days, changes) raises an error carrying both lengths, and
\* yields no instance, exactly when the numbers of days and of changes differ
\* (a scalar counts as one); otherwise orig_beta is unset; and every instance
\* has as many days as changes in every state.
C7_ScheduleValidated ==
    /\ After("init", "ChangeBeta") =>
          IF ArgLen(last.days) # ArgLen(last.changes)
          THEN /\ phase = "failed"
               /\ err.raised /\ err.type = "ValueError"
               /\ err.ndays = ArgLen(last.days)
               /\ err.nchanges = ArgLen(last.changes)
               /\ cb = NoInstance
          ELSE /\ phase # "failed"
               /\ err = NoError
               /\ cb # NoInstance
               /\ cb.orig_beta = None
    /\ cb # NoInstance => Len(cb.days) = Len(cb.changes)

\* C7 witness: fewer days (a scalar) than changes (two) has been refused.
C7_Witness ==
    /\ After("init", "ChangeBeta")
    /\ "scalar" \in DOMAIN last.days
    /\ ArgLen(last.changes) = 2
    /\ phase = "failed"

\* C2: every person in scheduled_tests when TestProp.apply starts is tested
\* by that call and counted in n_tested of its day.
C2_ScheduledAreTested ==
    After("apply", "TestProp") =>
        /\ \A i \in pre.tp.scheduled_tests \cap DOMAIN people : i \in last.tested
        /\ tp.results.n_tested[last.t] = Cardinality(last.tested)

\* C2 witness: a person without symptoms, scheduled on day 0, has been tested
\* on day 1 although asymptomatic_prob is 0.
C2_Witness ==
    /\ After("apply", "TestProp")
    /\ last.t = 1
    /\ tp.asymptomatic_prob = 0
    /\ \E i \in pre.tp.scheduled_tests :
          /\ i \in DOMAIN people
          /\ ~people[i].symptomatic
          /\ i \in last.tested

NoDuplicates(s) == \A a, b \in DOMAIN s : a # b => s[a] # s[b]

TNBudget == pre.tn.daily_tests[last.t + 1].num
TNRan == After("apply", "TestNum") /\ ~last.skipped
TNPositive == {i \in DOMAIN last.test_probs : last.test_probs[i] > 0}

\* C3: on a day with a positive finite budget, TestNum.apply tests at most
\* daily_tests[t] persons, no person twice, and exactly
\* min(daily_tests[t], population size) persons when that many persons have a
\* positive weight.
C3_BudgetConserved ==
    TNRan =>
        /\ Len(last.tested) <= TNBudget
        /\ NoDuplicates(last.tested)
        /\ Range(last.tested) \subseteq DOMAIN people
        /\ Cardinality(TNPositive) >= Min(TNBudget, NPeople) =>
              /\ phase # "crashed"
              /\ Len(last.tested) = Min(TNBudget, NPeople)

\* C3 witness: the whole population has been tested on a budget above its size.
C3_Witness ==
    /\ TNRan
    /\ TNBudget > NPeople
    /\ Len(last.tested) = NPeople

\* C4: when somebody is undiagnosed as TestNum.apply starts, every person
\* diagnosed at that moment has weight 0 and is not tested by the call; with a
\* budget of all but one and one person diagnosed, the persons tested are
\* exactly the others.
C4_DiagnosedNotRetested ==
    (TNRan /\ \E j \in DOMAIN pre.people : ~pre.people[j].diagnosed) =>
        LET diagnosed == {i \in DOMAIN pre.people : pre.people[i].diagnosed}
        IN  /\ \A i \in diagnosed :
                  last.test_probs[i] = 0 /\ i \notin Range(last.tested)
            /\ (Cardinality(diagnosed) = 1 /\ TNBudget = NPeople - 1
                    /\ TNPositive = (DOMAIN people) \ diagnosed) =>
                  Range(last.tested) = (DOMAIN people) \ diagnosed

\* C4 witness: a diagnosed, symptomatic known contact was passed over and
\* everybody else tested.
C4_Witness ==
    /\ TNRan
    /\ TNBudget = NPeople - 1
    /\ \E i \in DOMAIN pre.people :
          /\ pre.people[i].diagnosed
          /\ pre.people[i].symptomatic
          /\ pre.people[i].known_contact
          /\ Range(last.tested) = (DOMAIN people) \ {i}

\* The sum of the slots 0 .. day of a series
RECURSIVE SumOver(_, _)
SumOver(v, S) ==
    IF S = {} THEN 0
    ELSE LET i == CHOOSE x \in S : TRUE IN v[i] + SumOver(v, S \ {i})

IsRunningTotal(cum, daily) ==
    /\ DOMAIN cum = 0..(NPts - 1)
    /\ \A day \in 0..(NPts - 1) : cum[day] = SumOver(daily, 0..day)

Finalized(cls) == After("finalize", cls) \/ (phase = "done" /\ cls \in Range(reg))

\* C5: once finalize has run, every cumulative series is the running total of
\* its daily series, and finalize leaves the daily series as they were.
C5_CumulativeSeries ==
    /\ Finalized("TestNum") =>
          IsRunningTotal(tn.results.cum_diagnoses, tn.results.n_diagnoses)
    /\ After("finalize", "TestNum") =>
          tn.results.n_diagnoses = pre.tn.results.n_diagnoses
    /\ Finalized("TestProp") =>
          /\ IsRunningTotal(tp.results.cum_tested, tp.results.n_tested)
          /\ IsRunningTotal(tp.results.cum_diagnoses, tp.results.n_diagnoses)
    /\ After("finalize", "TestProp") =>
          /\ tp.results.n_tested = pre.tp.results.n_tested
          /\ tp.results.n_diagnoses = pre.tp.results.n_diagnoses

\* C5 witness: TestProp has been finalized after a run in which tests and
\* diagnoses were made on both days, more tests than diagnoses.
C5_Witness ==
    /\ After("finalize", "TestProp")
    /\ tp.results.n_diagnoses[0] > 0
    /\ tp.results.n_diagnoses[1] > 0
    /\ tp.results.cum_tested[1] > tp.results.cum_diagnoses[1]
    /\ tp.results.cum_diagnoses[1] > tp.results.cum_diagnoses[0]

\* The contacts of the persons tested by the latest TestProp.apply who are
\* diagnosed after their test
TracedFrom == UNION {people[i].contact_inds : i \in {j \in last.tested : people[j].diagnosed}}

\* C6: after TestProp.apply, scheduled_tests holds only contacts of persons
\* tested in that call and diagnosed after their test (so nothing is kept from
\* the set of the day before); it is all of them when trace_prob is 1 and is
\* empty when trace_prob is 0.
C6_OneStepLookahead ==
    After("apply", "TestProp") =>
        /\ tp.scheduled_tests \subseteq TracedFrom
        /\ tp.trace_prob = 100 => tp.scheduled_tests = TracedFrom
        /\ tp.trace_prob = 0 => tp.scheduled_tests = {}

\* C6 witness: with trace_prob 1, a person scheduled for day 1 is no longer
\* scheduled after day 1, while somebody else is.
C6_Witness ==
    /\ After("apply", "TestProp")
    /\ last.t = 1
    /\ tp.trace_prob = 100
    /\ tp.scheduled_tests # {}
    /\ pre.tp.scheduled_tests \ tp.scheduled_tests # {}

\* C8: no apply raises.
C8_NoErrorMidLoop == phase # "crashed"

IsTesting(cls) == cls \in {"TestNum", "TestProp"}

\* C9: the constructor and apply of TestNum and TestProp leave sim.results as
\* it was; after finalize, sim.results maps every name of the intervention's
\* results to the intervention's series; ChangeBeta's (inherited) finalize
\* changes nothing.
C9_ResultsMergedAtFinalize ==
    /\ (last.op \in {"init", "apply"} /\ IsTesting(last.cls)) =>
          sim_results = pre.sim_results
    /\ After("finalize", "TestNum") =>
          /\ {"n_diagnoses", "cum_diagnoses"} \subseteq DOMAIN sim_results
          /\ \A name \in DOMAIN tn.results : sim_results[name] = tn.results[name]
    /\ After("finalize", "TestProp") =>
          /\ {"n_diagnoses", "cum_diagnoses", "n_tested", "cum_tested"}
                \subseteq DOMAIN sim_results
          /\ \A name \in DOMAIN tp.results : sim_results[name] = tp.results[name]
    /\ After("finalize", "ChangeBeta") =>
          /\ sim_results = pre.sim_results
          /\ cb = pre.cb /\ beta = pre.beta /\ people = pre.people

\* C9 witness: TestProp's finalize has put a series with tests in it into
\* sim.results, which did not have it before.
C9_Witness ==
    /\ After("finalize", "TestProp")
    /\ "cum_tested" \notin DOMAIN pre.sim_results
    /\ sim_results["cum_tested"][NPts - 1] > 0

Instance(cls) ==
    CASE cls = "ChangeBeta" -> cb
      [] cls = "TestNum" -> tn
      [] OTHER -> tp

StoredFields(cls) ==
    CASE cls = "ChangeBeta" -> {"days", "changes"}
      [] cls = "TestNum" -> {"daily_tests", "sympt_test", "trace_test", "sensitivity"}
      [] OTHER -> {"symptomatic_prob", "asymptomatic_prob", "trace_prob", "test_sensitivity"}

ConstructorFields(cls) ==
    IF IsTesting(cls) THEN StoredFields(cls) \cup {"npts"} ELSE StoredFields(cls)

ToJsonHas(fields) ==
    /\ fields \subseteq DOMAIN last.ret
    /\ \A f \in fields \cap DOMAIN Instance(last.cls) : last.ret[f] = Instance(last.cls)[f]
    /\ "InterventionType" \in DOMAIN last.ret
    /\ last.ret["InterventionType"] = last.cls
    /\ Instance(last.cls) = CASE last.cls = "ChangeBeta" -> pre.cb
                              [] last.cls = "TestNum" -> pre.tn
                              [] OTHER -> pre.tp

\* C10 as claimed: to_json() holds every constructor-supplied field, npts
\* included, with its current value, and the class as discriminator, and
\* leaves the instance as it was.
C10_AllConstructorFields ==
    last.op = "to_json" => ToJsonHas(ConstructorFields(last.cls))

\* C10 amended: to_json() holds every constructor-supplied field but npts, with
\* its current value, and the class as discriminator, and leaves the instance
\* as it was; npts is no key of it: it is only the length of each series of
\* results.
C10_StoredConstructorFields ==
    last.op = "to_json" =>
        /\ ToJsonHas(StoredFields(last.cls))
        /\ "npts" \notin DOMAIN last.ret
        /\ IsTesting(last.cls) =>
              \A name \in DOMAIN last.ret.results :
                  DOMAIN last.ret.results[name] = 0..(NPts - 1)

\* C10 witness: to_json() of a TestProp with tests scheduled, in mid-run.
C10_Witness ==
    /\ After("to_json", "TestProp")
    /\ phase = "run"
    /\ last.ret.scheduled_tests # {}
    /\ last.ret.results.n_tested[0] > 0

\* The types of the values the mapping holds, at any depth
TypesIn(ret) ==
    {AttrType(key) : key \in DOMAIN ret}
        \cup (IF DOMAIN ret.results = {} THEN {} ELSE {ResultsValueType})

\* C11: the mapping returned by to_json() of any policy, in any state, holds
\* only values of JSON-compatible types (no set and no result-series object),
\* as it would if every policy with such an attribute overrode to_json.
C11_ToJsonSerializable ==
    last.op = "to_json" => TypesIn(last.ret) \subseteq JsonTypes

\* No tests are due on the day of the latest TestNum.apply: the schedule ends
\* before it, or its budget is zero or not finite.
TNNoTestsDue ==
    LET daily_tests == pre.tn.daily_tests
    IN  \/ last.t >= Len(daily_tests)
        \/ /\ last.t < Len(daily_tests)
           /\ daily_tests[last.t + 1] \in {Num(0), Inf}

\* C12: when no tests are due on day t, TestNum.apply(sim, t) returns without
\* error, tests nobody, and leaves every person, every slot of n_diagnoses and
\* cum_diagnoses and the rest of the instance as they were.
C12_NoTestsIsNoOp ==
    (After("apply", "TestNum") /\ TNNoTestsDue) =>
        /\ phase # "crashed"
        /\ err = NoError
        /\ last.tested = <<>>
        /\ people = pre.people
        /\ tn.results.n_diagnoses = pre.tn.results.n_diagnoses
        /\ tn.results.cum_diagnoses = pre.tn.results.cum_diagnoses
        /\ tn = pre.tn

\* C12 witness: day 1 lies beyond a schedule of one day, on which somebody
\* was diagnosed; the call on day 1 has returned.
C12_Witness ==
    /\ After("apply", "TestNum")
    /\ last.t = 1
    /\ Len(tn.daily_tests) = 1
    /\ tn.results.n_diagnoses[0] > 0
    /\ \E i \in DOMAIN people : ~people[i].diagnosed

\* C12 witness of the other two cases: a budget of zero, a budget not finite.
C12_WitnessZeroOrInf ==
    /\ After("apply", "TestNum")
    /\ last.t = 1
    /\ Len(tn.daily_tests) = 2
    /\ tn.daily_tests[1] = Num(NPeople - 1)
    /\ tn.daily_tests[2] \in {Num(0), Inf}
    /\ tn.results.n_diagnoses[0] > 0

\* The instances of ChangeBeta, by the name they are registered under
CBNames == {"ChangeBeta", "ChangeBeta#2"}
CBInst(name) == IF name = "ChangeBeta" THEN cb ELSE cb2
CBPre(name) == IF name = "ChangeBeta" THEN pre.cb ELSE pre.cb2

\* C13: for every instance of ChangeBeta on a simulation, whatever else is
\* registered, orig_beta is unset until the instance's first apply, is then
\* the value sim['beta'] had before any intervention changed it, and is never
\* changed by a later apply; every value the instance assigns to sim['beta']
\* is computed from it.
C13_BaselineBeforeAnyMutation ==
    \A name \in CBNames :
        /\ (CBInst(name) # NoInstance /\ phase = "new") => CBInst(name).orig_beta = None
        /\ After("apply", name) =>
              /\ CBInst(name).orig_beta \in MultiBetas
              /\ CBPre(name).orig_beta # None =>
                    CBInst(name).orig_beta = CBPre(name).orig_beta
              /\ Matching(CBInst(name).days, last.t) # {} =>
                    beta = ProductOver(CBInst(name).orig_beta, CBInst(name).changes,
                                       Matching(CBInst(name).days, last.t))

\* The scheduled days up to day
DaysUpTo(days, day) == {d \in Range(days) : d <= day}

\* What the schedule of self says sim['beta'] is on day: the baseline times
\* the changes of the greatest scheduled day up to day, the baseline when
\* there is none
ScheduledBeta(self, day) ==
    IF DaysUpTo(self.days, day) = {} THEN self.orig_beta
    ELSE LET d == CHOOSE x \in DaysUpTo(self.days, day) :
                      \A y \in DaysUpTo(self.days, day) : y <= x
         IN  ProductOver(self.orig_beta, self.changes, Matching(self.days, d))

\* C14 as claimed: whatever other interventions are registered, sim['beta']
\* after apply(sim, t) of an instance of ChangeBeta is what the instance's own
\* orig_beta, days, changes and t say.
C14_ReproducibleWhateverElse ==
    \A name \in CBNames :
        After("apply", name) => beta = ScheduledBeta(CBInst(name), last.t)

\* C14 amended: when no other instance of ChangeBeta is registered (TestNum
\* and TestProp may be), sim['beta'] after apply(sim, t) of the ChangeBeta
\* instance is what its own orig_beta, days, changes and t say: orig_beta
\* times the changes of the greatest scheduled day up to t, multiplied in
\* schedule order, and orig_beta when no day up to t is scheduled.
C14_ReproducibleWhenOnlyWriter ==
    \A name \in CBNames :
        (After("apply", name) /\ Range(reg) \cap CBNames = {name}) =>
            beta = ScheduledBeta(CBInst(name), last.t)

\* C14 witness: ChangeBeta registered before TestNum, on day 1 with a change
\* scheduled on day 0 only: sim['beta'] is still 0.5 * 0.7.
C14_Witness ==
    /\ reg = <<"ChangeBeta", "TestNum">>
    /\ After("apply", "ChangeBeta")
    /\ last.t = 1
    /\ cb.days = <<0>>
    /\ cb.changes = <<Float(7, 10)>>
    /\ beta = Float(35, 100)
    /\ tn # NoInstance

\* The schedule of self with days and changes permuted jointly by pm
Permuted(self, pm) ==
    [self EXCEPT !.days = [i \in DOMAIN self.days |-> self.days[pm[i]]],
                 !.changes = [i \in DOMAIN self.changes |-> self.changes[pm[i]]]]

\* pm leaves the entries of each day in the order they had
KeepsDayOrder(days, pm) ==
    \A i, j \in DOMAIN days : (i < j /\ days[pm[i]] = days[pm[j]]) => pm[i] < pm[j]

\* The call made by the latest step repeated the call before it
Repeated == After("apply", "ChangeBeta") /\ "again" \in DOMAIN last

\* apply on the instance with its schedule permuted by pm, from the state the
\* latest call started from, leaves the sim['beta'] the latest call left.  (The
\* two runs are then in the same state after every call, a call changing
\* nothing but orig_beta and sim['beta'].)
SameBetaPermuted(pm) ==
    /\ beta = CBNewBeta(Permuted(pre.cb, pm), pre.beta, last.t)
    /\ cb.orig_beta = CBOrigBeta(Permuted(pre.cb, pm), pre.beta)

\* C15 as claimed: however days and changes are permuted jointly, the values
\* of sim['beta'] over the run are the same; and apply called again for the
\* same day leaves sim['beta'] as the first call left it.
C15_AnyPermutation ==
    After("apply", "ChangeBeta") =>
        /\ \A pm \in Permutations(DOMAIN pre.cb.days) : SameBetaPermuted(pm)
        /\ Repeated => (beta = pre.beta /\ cb = pre.cb)

\* C15 amended: the values of sim['beta'] over the run are the same for every
\* joint permutation of days and changes that keeps the entries of each day
\* in their order (the changes of a day are multiplied in schedule order, and
\* the float product depends on that order); and apply called again for the
\* same day leaves sim['beta'] as the first call left it.
C15_PermutationKeepingDayOrder ==
    After("apply", "ChangeBeta") =>
        /\ \A pm \in Permutations(DOMAIN pre.cb.days) :
              KeepsDayOrder(pre.cb.days, pm) => SameBetaPermuted(pm)
        /\ Repeated => (beta = pre.beta /\ cb = pre.cb)

\* C15 witness: apply has been called again on a scheduled day of a schedule
\* of two days, later day first; sim['beta'] is off the baseline.
C15_Witness ==
    /\ Repeated
    /\ Len(cb.days) = 2
    /\ cb.days[1] > cb.days[2]
    /\ last.t = cb.days[1]
    /\ beta # cb.orig_beta

\* C16: TestProp.apply tests person i exactly when i is in the scheduled set
\* the call starts with, or the person has symptoms and its trial of
\* symptomatic_prob succeeds, or it has none and its trial of
\* asymptomatic_prob succeeds (a trial of probability 0 never succeeds); so
\* with both probabilities 0 the persons tested are the members of the
\* population in the scheduled set, and if that set is empty too nobody is
\* tested and the set stays empty.
C16_TestedIffTriggered ==
    After("apply", "TestProp") =>
        /\ \A i \in DOMAIN people :
              i \in last.tested <=>
                  \/ i \in pre.tp.scheduled_tests
                  \/ (pre.people[i].symptomatic /\ i \in last.draws)
                  \/ (~pre.people[i].symptomatic /\ i \in last.draws)
        /\ last.tested \subseteq DOMAIN people
        /\ \A i \in last.draws :
              /\ pre.people[i].symptomatic => tp.symptomatic_prob > 0
              /\ ~pre.people[i].symptomatic => tp.asymptomatic_prob > 0
        /\ (tp.symptomatic_prob = 0 /\ tp.asymptomatic_prob = 0) =>
              /\ last.tested = pre.tp.scheduled_tests \cap DOMAIN people
              /\ pre.tp.scheduled_tests = {} =>
                    (last.tested = {} /\ tp.scheduled_tests = {})

\* C16 witness: on day 1 a person without symptoms is tested because it was
\* scheduled, its trial not having succeeded, a second is tested because its
\* trial succeeded, and a third, or one of these on day 0, was not tested.
C16_Witness ==
    /\ After("apply", "TestProp")
    /\ last.t = 1
    /\ \E i \in last.tested :
          i \in pre.tp.scheduled_tests /\ ~people[i].symptomatic /\ i \notin last.draws
    /\ \E j \in last.tested : j \notin pre.tp.scheduled_tests /\ j \in last.draws
    /\ tp.results.n_tested[0] < NPeople \/ last.tested # DOMAIN people

\* C16 witness of the last case: nothing scheduled and both probabilities 0.
C16_WitnessNobody ==
    /\ After("apply", "TestProp")
    /\ tp.symptomatic_prob = 0 /\ tp.asymptomatic_prob = 0
    /\ \E i \in DOMAIN people : people[i].symptomatic
    /\ last.tested = {}

\* The persons the latest call diagnosed: not diagnosed before it, diagnosed now
NewlyDiagnosed == {i \in DOMAIN people : people[i].diagnosed /\ ~pre.people[i].diagnosed}

AllDays == 0..(NPts - 1)

\* C17: for TestNum and TestProp, apply(sim, t) adds to n_diagnoses[t] the
\* number of persons it diagnosed (diagnosed changed from false to true in the
\* call), so the diagnoses of all days together never exceed the population.
C17_DiagnosisCountedOnce ==
    /\ After("apply", "TestNum") =>
          tn.results.n_diagnoses[last.t]
              = pre.tn.results.n_diagnoses[last.t] + Cardinality(NewlyDiagnosed)
    /\ After("apply", "TestProp") =>
          tp.results.n_diagnoses[last.t]
              = pre.tp.results.n_diagnoses[last.t] + Cardinality(NewlyDiagnosed)
    /\ tn # NoInstance => SumOver(tn.results.n_diagnoses, AllDays) <= NPeople
    /\ tp # NoInstance => SumOver(tp.results.n_diagnoses, AllDays) <= NPeople

\* The part of C17 about TestNum
C17_TestNumCountsOnce ==
    /\ After("apply", "TestNum") =>
          tn.results.n_diagnoses[last.t]
              = pre.tn.results.n_diagnoses[last.t] + Cardinality(NewlyDiagnosed)
    /\ tn # NoInstance => SumOver(tn.results.n_diagnoses, AllDays) <= NPeople

\* C18: in every state, for every day, 0 <= n_diagnoses[t] <= n_tested[t] <=
\* population size for TestProp; apply counts each person it tests once in
\* n_tested, also a person who is scheduled and could have been drawn too.
C18_CountersBounded ==
    /\ tp # NoInstance =>
          \A day \in AllDays :
              /\ 0 <= tp.results.n_diagnoses[day]
              /\ tp.results.n_diagnoses[day] <= tp.results.n_tested[day]
              /\ tp.results.n_tested[day] <= NPeople
    /\ After("apply", "TestProp") =>
          /\ tp.results.n_tested[last.t]
                = pre.tp.results.n_tested[last.t] + Cardinality(last.tested)
          /\ tp.results.n_diagnoses[last.t]
                <= pre.tp.results.n_diagnoses[last.t] + Cardinality(last.tested)

\* C18 witness: a person with symptoms (symptomatic_prob is 0.9) who was also
\* scheduled has been tested on day 1, together with everybody else.
C18_Witness ==
    /\ After("apply", "TestProp")
    /\ last.t = 1
    /\ tp.symptomatic_prob = 90
    /\ \E i \in pre.tp.scheduled_tests :
          i \in DOMAIN people /\ people[i].symptomatic /\ i \in last.tested
    /\ tp.results.n_tested[last.t] = NPeople
    /\ tp.results.n_diagnoses[last.t] > 0

IsZero(series) == \A day \in DOMAIN series : series[day] = 0

\* A call left every attribute of the instance but results as it was
OnlyResultsChanged(self, before) ==
    /\ DOMAIN self = DOMAIN before
    /\ \A attr \in (DOMAIN self) \ {"results"} : self[attr] = before[attr]

\* C19: apply(sim, t) of TestNum and TestProp changes no slot of n_diagnoses
\* and n_tested but that of day t, and no slot of the cumulative series, which
\* are all zero until finalize; it changes no configuration field; and of
\* TestNum it changes nothing but results.
C19_OnlyTodaysSlot ==
    /\ After("apply", "TestNum") =>
          /\ \A s \in AllDays \ {last.t} :
                tn.results.n_diagnoses[s] = pre.tn.results.n_diagnoses[s]
          /\ tn.results.cum_diagnoses = pre.tn.results.cum_diagnoses
          /\ DOMAIN tn.results = DOMAIN pre.tn.results
          /\ OnlyResultsChanged(tn, pre.tn)
    /\ After("apply", "TestProp") =>
          /\ \A s \in AllDays \ {last.t} :
                /\ tp.results.n_diagnoses[s] = pre.tp.results.n_diagnoses[s]
                /\ tp.results.n_tested[s] = pre.tp.results.n_tested[s]
          /\ tp.results.cum_diagnoses = pre.tp.results.cum_diagnoses
          /\ tp.results.cum_tested = pre.tp.results.cum_tested
          /\ DOMAIN tp.results = DOMAIN pre.tp.results
          /\ \A f \in StoredFields("TestProp") : tp[f] = pre.tp[f]
          /\ DOMAIN tp = DOMAIN pre.tp
    /\ (phase \in {"new", "run", "crashed"} /\ tn # NoInstance) =>
          IsZero(tn.results.cum_diagnoses)
    /\ (phase \in {"new", "run"} /\ tp # NoInstance) =>
          IsZero(tp.results.cum_diagnoses) /\ IsZero(tp.results.cum_tested)

\* C19 witness: TestNum has diagnosed somebody on day 0 and somebody on day
\* 1; the cumulative series is still zero.
C19_Witness ==
    /\ After("apply", "TestNum")
    /\ last.t = 1
    /\ tn.results.n_diagnoses[0] > 0
    /\ tn.results.n_diagnoses[1] > 0
    /\ IsZero(tn.results.cum_diagnoses)

\* C19 witness for TestProp: tests on day 0 and on day 1, the set of scheduled
\* tests changed by the call.
C19_WitnessTestProp ==
    /\ After("apply", "TestProp")
    /\ last.t = 1
    /\ tp.results.n_tested[0] > 0
    /\ tp.results.n_tested[1] > 0
    /\ tp.scheduled_tests # pre.tp.scheduled_tests

\* The latest call was apply of the intervention registered second, of two
SecondApplied == Len(reg) = 2 /\ last.op = "apply" /\ last.cls = reg[2]

\* C20: on each day the intervention registered second is applied to the
\* state the first one left for that day.  After two instances of ChangeBeta:
\* the first has its baseline, on a day it has changes for sim['beta'] was
\* what it assigned when the second was called, and that is the value the
\* second stores if the call is its first.  After a testing policy and
\* TestNum: every person diagnosed when TestNum.apply starts, so everybody
\* the first policy diagnosed that day, has weight 0 and is not tested by it.
C20_LaterSeesEarlier ==
    /\ (SecondApplied /\ Range(reg) = CBNames) =>
          LET first == CBInst(reg[1])
              m == Matching(first.days, last.t)
          IN  /\ first.orig_beta # None
              /\ m # {} => pre.beta = ProductOver(first.orig_beta, first.changes, m)
              /\ CBPre(reg[2]).orig_beta = None => CBInst(reg[2]).orig_beta = pre.beta
    /\ (SecondApplied /\ reg = <<"TestProp", "TestNum">>) =>
          /\ pre.tp.results.n_tested[last.t] >= pre.tp.results.n_diagnoses[last.t]
          /\ pre.tp.results.n_diagnoses[last.t]
                <= Cardinality({i \in DOMAIN pre.people : pre.people[i].diagnosed})
          /\ ~last.skipped =>
                \A i \in DOMAIN pre.people :
                    pre.people[i].diagnosed =>
                        (last.test_probs[i] = 0 /\ i \notin Range(last.tested))

\* C20 witness: TestProp has diagnosed a person on day 0 and TestNum, called
\* next for day 0, has given it weight 0 and tested the other one.
C20_Witness ==
    /\ SecondApplied /\ reg = <<"TestProp", "TestNum">>
    /\ last.t = 0
    /\ pre.tp.results.n_diagnoses[0] = 1
    /\ \E i \in DOMAIN pre.people :
          /\ pre.people[i].diagnosed
          /\ last.test_probs[i] = 0
          /\ Range(last.tested) = (DOMAIN people) \ {i}

\* C20 witness for sim['beta']: the second instance of ChangeBeta has stored
\* on day 0 the 0.35 that the first had just assigned.
C20_WitnessBeta ==
    /\ SecondApplied /\ reg = <<"ChangeBeta", "ChangeBeta#2">>
    /\ last.t = 0
    /\ cb.orig_beta = Float(1, 2)
    /\ cb2.orig_beta = Float(35, 100)

====
